---- MODULE Spec2Model ----
(***************************************************************************)
(* Verification model of the ProbabilityTheory demo scripts:               *)
(*   - CentralLimitTheorem/interactive_clt.py  (class InteractiveCLT)      *)
(*   - BinomialDistribution/main.py            (module body)               *)
(*   - CentralLimitTheorem/main.py             (demonstrate_clt)           *)
(* The three scripts are independent programs; each has its own            *)
(* specification (Spec, SpecBinomial, SpecBatch) over its own variables.   *)
(*                                                                         *)
(* Floating-point values in [0,1) are modelled in fixed point: the integer *)
(* v stands for v / RngMod.  numpy's global generator is modelled as a     *)
(* small counter-based generator whose state is the variable rng.    *)
(***************************************************************************)
EXTENDS Integers, Sequences, FiniteSets

VARIABLES
    \* ---- InteractiveCLT instance -------------------------------------
    sample_size,        \* self.sample_size
    samples_per_click,  \* self.samples_per_click
    sample_means,       \* self.sample_means (list of means, fixed point)
    draw_sizes,         \* history: size of the draw each mean was computed from
    view,               \* what update_plot last put on self.ax
    last,               \* history: the event handled last
    prev,               \* history: the event handled before that
    \* ---- numpy global generator (used by both CLT scripts) ------------
    rng,
    \* ---- BinomialDistribution/main.py --------------------------------
    p,                  \* p as the exact rational [num, den]
    n,                  \* n
    k_values,           \* list(range(n + 1))
    probs,              \* numerators of the probabilities over p.den^n
    bin_pc,             \* position in the script
    \* ---- CentralLimitTheorem/main.py demonstrate_clt -----------------
    sample_sizes,       \* argument sample_sizes
    num_experiments,    \* argument num_experiments
    idx,                \* loop index of `for idx, n in enumerate(...)` (1-based)
    subplots,           \* one record per axes the loop has drawn on
    plot_calls,         \* log of the plotting operations reached, in order
    clt_pc              \* position in demonstrate_clt

ivars == <<sample_size, samples_per_click, sample_means, draw_sizes, view, last, prev>>
bvars == <<p, n, k_values, probs, bin_pc>>
cvars == <<sample_sizes, num_experiments, idx, subplots, plot_calls, clt_pc>>
vars == <<sample_size, samples_per_click, sample_means, draw_sizes, view, last, prev,
          rng, p, n, k_values, probs, bin_pc,
          sample_sizes, num_experiments, idx, subplots, plot_calls, clt_pc>>

(***************************************************************************)
(* Bounds of the model.                                                    *)
(***************************************************************************)
RngMod == 8             \* number of generator states = fixed-point resolution
MaxHist == 255          \* history lengths explored (sampling stops beyond it)
MaxN == 5               \* largest binomial n explored
MaxDen == 3             \* largest denominator of p explored
MaxSizes == 7           \* longest sample_sizes list explored
MaxSampleSize == 2      \* largest entry of a sample_sizes list explored
MaxExperiments == 2     \* largest num_experiments explored

(***************************************************************************)
(* Program constants.                                                      *)
(***************************************************************************)
DefaultSampleSize == 30
DefaultSamplesPerClick == 5
SliderMin == 1
SliderMax == 100
MinBins == 10
MaxBins == 50
BinsDivisor == 5
BatchBins == 50
GridRows == 2
GridCols == 3
Seed == 42

NaN == -1               \* np.mean of an empty array

(***************************************************************************)
(* numpy.random: generator step and np.random.uniform(a, b, size).         *)
(***************************************************************************)
\* The generator is counter based: the state steps by one per value drawn and
\* the value drawn is a scrambling of the state.
RngNext(s) == (s + 1) % RngMod
RngOut(s) == (5 * s + 3) % RngMod

\* The state after count values have been drawn.
RngAdvance(s, count) == (s + count) % RngMod

\* The array drawn by uniform(0, 1, size) from generator state s.
Uniform(s, size) == [i \in 1..size |-> RngOut(RngAdvance(s, i))]

\* xs[lo] + ... + xs[hi], summed by halves.
RECURSIVE SumRange(_, _, _)
SumRange(xs, lo, hi) ==
    IF lo > hi THEN 0
    ELSE IF lo = hi THEN xs[lo]
    ELSE LET mid == (lo + hi) \div 2
         IN SumRange(xs, lo, mid) + SumRange(xs, mid + 1, hi)

\* np.mean
Mean(xs) == IF Len(xs) = 0 THEN NaN ELSE SumRange(xs, 1, Len(xs)) \div Len(xs)

Min2(x, y) == IF x <= y THEN x ELSE y
Max2(x, y) == IF x >= y THEN x ELSE y

(***************************************************************************)
(* InteractiveCLT (interactive_clt.py).                                    *)
(***************************************************************************)
\* Constructor arguments explored, and the values the slider can report.
SampleSizeArgs == {DefaultSampleSize}
SliderPicks == {SliderMin, 2, SliderMax}
FloatScale == 10
SliderVals == {FloatScale * v : v \in SliderPicks}

\* int(val) on a non-negative float kept in units of 1/FloatScale
ToInt(val) == val \div FloatScale

\* Variant: the lower clamp is missing.
Bins_NoFloor(num_means) == Min2(MaxBins, num_means \div BinsDivisor)

\* bins = min(50, max(10, num_means // 5))
Bins(num_means) == Min2(MaxBins, Max2(MinBins, num_means \div BinsDivisor))

\* What update_plot draws for a history and a sample size.
Plot(means, size) ==
    IF Len(means) = 0
    THEN [kind |-> "placeholder", n |-> size]
    ELSE [kind |-> "histogram", n |-> size, count |-> Len(means),
          bins |-> Bins(Len(means)), actual_mean |-> Mean(means)]

\* Variant: the redraw reads the state as it was before the handler changed it.
update_plot_Before == view' = Plot(sample_means, sample_size)

update_plot == view' = Plot(sample_means', sample_size')

\* The means appended by the loop of take_samples, from generator state s.
NewMeans(s, size, num_samples) ==
    [j \in 1..num_samples |-> Mean(Uniform(RngAdvance(s, (j - 1) * size), size))]

\* The sizes of the arrays those means were computed from.
NewSizes(s, size, num_samples) ==
    [j \in 1..num_samples |-> Len(Uniform(RngAdvance(s, (j - 1) * size), size))]

\* Variant: the loop runs one time too few.
take_samples_OneShort(num_samples) ==
    /\ sample_means' = sample_means \o NewMeans(rng, sample_size, num_samples - 1)
    /\ draw_sizes' = draw_sizes \o NewSizes(rng, sample_size, num_samples - 1)
    /\ rng' = RngAdvance(rng, sample_size * (num_samples - 1))

take_samples(num_samples) ==
    /\ sample_means' = sample_means \o NewMeans(rng, sample_size, num_samples)
    /\ draw_sizes' = draw_sizes \o NewSizes(rng, sample_size, num_samples)
    /\ rng' = RngAdvance(rng, sample_size * num_samples)

\* Bookkeeping of the event just handled and of its argument.
Handled(ev, arg) == last' = [ev |-> ev, arg |-> arg] /\ prev' = last

InitInteractive ==
    /\ sample_size \in SampleSizeArgs
    /\ samples_per_click = DefaultSamplesPerClick
    /\ sample_means = <<>>
    /\ draw_sizes = <<>>
    /\ view = Plot(<<>>, sample_size)
    /\ last = [ev |-> "init", arg |-> 0]
    /\ prev = [ev |-> "init", arg |-> 0]

on_sample_click ==
    /\ Len(sample_means) + samples_per_click <= MaxHist
    /\ take_samples(samples_per_click)
    /\ UNCHANGED <<sample_size, samples_per_click>>
    /\ update_plot
    /\ Handled("sample", samples_per_click)

on_sample10_click ==
    /\ Len(sample_means) + samples_per_click * 10 <= MaxHist
    /\ take_samples(samples_per_click * 10)
    /\ UNCHANGED <<sample_size, samples_per_click>>
    /\ update_plot
    /\ Handled("sample10", samples_per_click * 10)

\* Variant: the history is cleared but the plot is not redrawn.
on_reset_click_NoRedraw ==
    /\ sample_means' = <<>>
    /\ draw_sizes' = <<>>
    /\ UNCHANGED <<sample_size, samples_per_click, rng, view>>
    /\ Handled("reset", 0)

\* Variant: reset drops only the samples of the latest click.
on_reset_click_UndoLast ==
    /\ LET keep == Max2(0, Len(sample_means) - samples_per_click)
       IN /\ sample_means' = SubSeq(sample_means, 1, keep)
          /\ draw_sizes' = SubSeq(draw_sizes, 1, keep)
    /\ UNCHANGED <<sample_size, samples_per_click, rng>>
    /\ update_plot
    /\ Handled("reset", 0)

on_reset_click ==
    /\ sample_means' = <<>>
    /\ draw_sizes' = <<>>
    /\ UNCHANGED <<sample_size, samples_per_click, rng>>
    /\ update_plot
    /\ Handled("reset", 0)

\* Variant: the history is reset but the new value is not stored.
on_n_change_IgnoresVal(val) ==
    /\ sample_means' = <<>>
    /\ draw_sizes' = <<>>
    /\ UNCHANGED <<sample_size, samples_per_click, rng>>
    /\ update_plot
    /\ Handled("n_change", val)

\* Variant: the new value is stored but the history is kept.
on_n_change_KeepsHistory(val) ==
    /\ sample_size' = ToInt(val)
    /\ UNCHANGED <<sample_means, draw_sizes, samples_per_click, rng>>
    /\ update_plot
    /\ Handled("n_change", val)

on_n_change(val) ==
    /\ sample_size' = ToInt(val)
    /\ sample_means' = <<>>
    /\ draw_sizes' = <<>>
    /\ UNCHANGED <<samples_per_click, rng>>
    /\ update_plot
    /\ Handled("n_change", val)

IdleBinomial ==
    /\ p = [num |-> 0, den |-> 1]
    /\ n = 0
    /\ k_values = <<>>
    /\ probs = <<>>
    /\ bin_pc = "idle"

IdleBatch ==
    /\ sample_sizes = <<>>
    /\ num_experiments = 0
    /\ idx = 0
    /\ subplots = <<>>
    /\ plot_calls = <<>>
    /\ clt_pc = "idle"

Init ==
    /\ InitInteractive
    /\ rng \in 0..(RngMod - 1)
    /\ IdleBinomial
    /\ IdleBatch

Next ==
    \/ on_sample_click /\ UNCHANGED <<bvars, cvars>>
    \/ on_sample10_click /\ UNCHANGED <<bvars, cvars>>
    \/ on_reset_click /\ UNCHANGED <<bvars, cvars>>
    \/ \E val \in SliderVals : on_n_change(val) /\ UNCHANGED <<bvars, cvars>>

Spec == Init /\ [][Next]_vars

(***************************************************************************)
(* Properties of the interactive demonstrator (checked under Spec).        *)
(***************************************************************************)
SampleEvents == {"sample", "sample10"}
ClickSize(ev) == IF ev = "sample" THEN samples_per_click ELSE 10 * samples_per_click

\* C1: a sample event of k trials (k = samples_per_click for the sample
\* button, 10 * samples_per_click for sample x10) appends exactly k means:
\* the history grows by k, its old entries keep their values and order, and
\* the sample size n is unchanged; sample(5) from empty leaves length 5.
C1_SampleAppendsK ==
    [][last'.ev \in SampleEvents =>
          /\ Len(sample_means') = Len(sample_means) + ClickSize(last'.ev)
          /\ SubSeq(sample_means', 1, Len(sample_means)) = sample_means
          /\ sample_size' = sample_size
          /\ (sample_means = <<>> /\ last'.ev = "sample" => Len(sample_means') = 5)]_vars

C1_Witness ==
    /\ prev.ev = "sample" /\ last.ev = "sample10"
    /\ Len(sample_means) = 55

\* C2: set_sample_size(n') sets the sample size to n' and leaves the
\* history empty, whatever the state before.
C2_SetSampleSizeClears ==
    last.ev = "n_change" =>
        /\ sample_size * FloatScale = last.arg
        /\ Len(sample_means) = 0

C2_Witness ==
    /\ prev.ev = "sample10" /\ last.ev = "n_change"
    /\ last.arg = SliderMax * FloatScale /\ sample_size = SliderMax
    /\ sample_means = <<>>

\* C3: after reset the history length is 0 and the plot shows the
\* instructional placeholder, not a histogram.
C3_ResetShowsPlaceholder ==
    last.ev = "reset" => Len(sample_means) = 0 /\ view.kind = "placeholder"

C3_Witness ==
    /\ prev.ev \in SampleEvents /\ last.ev = "reset"
    /\ sample_means = <<>> /\ view.kind = "placeholder"

\* C4: after every event the display is the one computed from the current
\* state: the placeholder exactly when the history is empty, otherwise a
\* histogram showing the history length as sample count and the current n.
C4_DisplayNeverStale ==
    /\ view.kind = "placeholder" <=> sample_means = <<>>
    /\ view.kind \in {"placeholder", "histogram"}
    /\ view.n = sample_size
    /\ view.kind = "histogram" =>
          /\ view.count = Len(sample_means)
          /\ view.actual_mean = Mean(sample_means)

C4_Witness ==
    /\ prev.ev = "n_change" /\ last.ev = "sample10"
    /\ view.kind = "histogram" /\ view.count = 50 /\ view.n = 2

\* C5: every mean in the history was computed from a draw of exactly the
\* current sample size n; means of different n are never mixed.
C5_HistoryOfCurrentN ==
    /\ Len(draw_sizes) = Len(sample_means)
    /\ \A i \in 1..Len(draw_sizes) : draw_sizes[i] = sample_size

C5_Witness ==
    /\ prev.ev = "n_change" /\ last.ev = "sample"
    /\ sample_size = SliderMax
    /\ Len(sample_means) = 5 /\ draw_sizes[5] = SliderMax

\* C6: reset is idempotent: a reset that directly follows a reset leaves
\* the history, the sample size and the display as the first one left them.
C6_ResetIdempotent ==
    [][last.ev = "reset" /\ last'.ev = "reset" =>
          /\ sample_means' = sample_means /\ sample_means' = <<>>
          /\ sample_size' = sample_size
          /\ view' = view
          /\ rng' = rng]_vars

C6_Witness ==
    /\ prev.ev = "reset" /\ last.ev = "reset"
    /\ sample_means = <<>> /\ view.kind = "placeholder"

\* C10: whenever a histogram is drawn (history length L >= 1) the bin count
\* is an integer in [10, 50], is 10 for L < 55, floor(L / 5) for
\* 55 <= L < 250 and 50 for L >= 250, and it never decreases while the
\* history grows.
BinsInRange ==
    view.kind = "histogram" =>
        LET L == Len(sample_means) IN
        /\ L >= 1
        /\ view.bins \in 10..50
        /\ L < 55 => view.bins = 10
        /\ L >= 250 => view.bins = 50
        /\ (L >= 55 /\ L < 250) => (5 * view.bins <= L /\ L < 5 * (view.bins + 1))

C10_BinCount ==
    /\ []BinsInRange
    /\ [][(view.kind = "histogram" /\ view'.kind = "histogram"
            /\ Len(sample_means') >= Len(sample_means))
           => view'.bins >= view.bins]_vars

C10_Witness ==
    /\ view.kind = "histogram"
    /\ Len(sample_means) >= 250 /\ view.bins = 50
    /\ prev.ev = "sample10" /\ last.ev = "sample"

(***************************************************************************)
(* BinomialDistribution/main.py.  p is the exact rational p.num / p.den;   *)
(* probs[i] holds the numerator of the i-th probability over the common    *)
(* denominator p.den^n.                                                    *)
(***************************************************************************)
RECURSIVE Pow(_, _)
Pow(base, e) == IF e <= 0 THEN 1 ELSE base * Pow(base, e - 1)

\* math.comb(m, k) for 0 <= k <= m, by the multiplicative formula
RECURSIVE Comb(_, _)
Comb(m, k) == IF k <= 0 THEN 1 ELSE (Comb(m, k - 1) * (m - k + 1)) \div k

\* Variant: range(m) instead of range(m + 1).
Range_OneShort(m) == [i \in 1..(m - 1) |-> i - 1]

\* list(range(m)): 0, 1, ..., m - 1 (empty when m <= 0)
Range(m) == [i \in 1..m |-> i - 1]

\* math.comb(n, k) * p**k * (1 - p) ** (n - k), as a numerator over p.den^n
Prob(k) == Comb(n, k) * Pow(p.num, k) * Pow(p.den - p.num, n - k)

InitBinomial ==
    /\ p \in [num : (-1)..(MaxDen + 1), den : 1..MaxDen]
    /\ p.num <= p.den + 1
    /\ n \in (-2)..MaxN
    /\ k_values = <<>>
    /\ probs = <<>>
    /\ bin_pc = "start"

\* k_values = list(range(n + 1))
BinKValues ==
    /\ bin_pc = "start"
    /\ k_values' = Range(n + 1)
    /\ bin_pc' = "probs"
    /\ UNCHANGED <<p, n, probs>>

\* one element of the list comprehension building probs
BinProb ==
    /\ bin_pc = "probs"
    /\ Len(probs) < Len(k_values)
    /\ probs' = Append(probs, Prob(k_values[Len(probs) + 1]))
    /\ UNCHANGED <<p, n, k_values, bin_pc>>

\* plt.bar(k_values, probs)
BinBar ==
    /\ bin_pc = "probs"
    /\ Len(probs) = Len(k_values)
    /\ bin_pc' = "bar"
    /\ UNCHANGED <<p, n, k_values, probs>>

\* labels, title and plt.show()
BinShow ==
    /\ bin_pc = "bar"
    /\ bin_pc' = "shown"
    /\ UNCHANGED <<p, n, k_values, probs>>

IdleInteractive ==
    /\ sample_size = DefaultSampleSize
    /\ samples_per_click = DefaultSamplesPerClick
    /\ sample_means = <<>>
    /\ draw_sizes = <<>>
    /\ view = [kind |-> "none", n |-> DefaultSampleSize]
    /\ last = [ev |-> "none", arg |-> 0]
    /\ prev = [ev |-> "none", arg |-> 0]

InitBin ==
    /\ InitBinomial
    /\ IdleInteractive
    /\ IdleBatch
    /\ rng = 0

NextBin ==
    \/ BinKValues /\ UNCHANGED <<ivars, cvars, rng>>
    \/ BinProb /\ UNCHANGED <<ivars, cvars, rng>>
    \/ BinBar /\ UNCHANGED <<ivars, cvars, rng>>
    \/ BinShow /\ UNCHANGED <<ivars, cvars, rng>>

SpecBinomial == InitBin /\ [][NextBin]_vars

\* n is a non-negative integer and p lies in [0, 1]
BinParamsValid == n >= 0 /\ p.num >= 0 /\ p.num <= p.den

\* Binomial coefficient by Pascal's rule, the reference for C8.
RECURSIVE Pascal(_, _)
Pascal(m, k) ==
    IF k < 0 \/ k > m THEN 0
    ELSE IF k = 0 \/ k = m THEN 1
    ELSE Pascal(m - 1, k - 1) + Pascal(m - 1, k)

NumAxes == GridRows * GridCols

SizeLists == UNION {[1..len -> 0..MaxSampleSize] : len \in 0..MaxSizes}

PlotCall(op, arg) == [op |-> op, arg |-> arg]

InitBatch ==
    /\ sample_sizes \in SizeLists
    /\ num_experiments \in 0..MaxExperiments
    /\ idx = 0
    /\ subplots = <<>>
    /\ plot_calls = <<>>
    /\ clt_pc = "start"

\* fig, axes = plt.subplots(2, 3, ...); axes = axes.flatten(); a, b, ...
CltSubplots ==
    /\ clt_pc = "start"
    /\ plot_calls' = Append(plot_calls, PlotCall("subplots", NumAxes))
    /\ clt_pc' = "loop"
    /\ UNCHANGED <<sample_sizes, num_experiments, idx, subplots, rng>>

\* One iteration of `for idx, n in enumerate(sample_sizes)`.
CltIteration ==
    /\ clt_pc = "loop"
    /\ idx < Len(sample_sizes)
    /\ LET size == sample_sizes[idx + 1]
           means == NewMeans(rng, size, num_experiments)
       IN IF idx + 1 > NumAxes
          THEN \* ax = axes[idx] is out of range
               /\ clt_pc' = "IndexError"
               /\ UNCHANGED <<idx, subplots, plot_calls, rng>>
          ELSE /\ rng' = RngAdvance(rng, size * num_experiments)
               /\ IF num_experiments = 0
                  THEN \* ax.hist of no data, then sample_means.min() of an
                       \* empty array raises
                       /\ plot_calls' = Append(plot_calls, PlotCall("hist", size))
                       /\ clt_pc' = "ValueError"
                       /\ UNCHANGED <<idx, subplots>>
                  ELSE IF size = 0
                  THEN \* every mean is nan: ax.hist finds no finite range
                       /\ plot_calls' = Append(plot_calls, PlotCall("hist", size))
                       /\ clt_pc' = "ValueError"
                       /\ UNCHANGED <<idx, subplots>>
                  ELSE /\ plot_calls' = plot_calls \o
                              <<PlotCall("hist", size), PlotCall("plot", size)>>
                       /\ subplots' = Append(subplots,
                              [n |-> size, count |-> Len(means), bins |-> BatchBins,
                               actual_mean |-> Mean(means)])
                       /\ idx' = idx + 1
                       /\ UNCHANGED clt_pc
    /\ UNCHANGED <<sample_sizes, num_experiments>>

\* plt.suptitle, plt.tight_layout, plt.savefig(<fixed path>)
CltSavefig ==
    /\ clt_pc = "loop"
    /\ idx = Len(sample_sizes)
    /\ plot_calls' = Append(plot_calls, PlotCall("savefig", Len(subplots)))
    /\ clt_pc' = "savefig"
    /\ UNCHANGED <<sample_sizes, num_experiments, idx, subplots, rng>>

\* the file is written; plt.show() and the printed summary follow
CltShow ==
    /\ clt_pc = "savefig"
    /\ clt_pc' = "done"
    /\ UNCHANGED <<sample_sizes, num_experiments, idx, subplots, plot_calls, rng>>

\* the fixed output path cannot be written
CltSaveFails ==
    /\ clt_pc = "savefig"
    /\ clt_pc' = "OSError"
    /\ UNCHANGED <<sample_sizes, num_experiments, idx, subplots, plot_calls, rng>>

InitClt ==
    /\ InitBatch
    /\ rng = Seed % RngMod
    /\ IdleInteractive
    /\ IdleBinomial

NextClt ==
    \/ CltSubplots /\ UNCHANGED <<ivars, bvars>>
    \/ CltIteration /\ UNCHANGED <<ivars, bvars>>
    \/ CltSavefig /\ UNCHANGED <<ivars, bvars>>
    \/ CltShow /\ UNCHANGED <<ivars, bvars>>
    \/ CltSaveFails /\ UNCHANGED <<ivars, bvars>>

SpecBatch == InitClt /\ [][NextClt]_vars

CltTerminated == clt_pc \in {"done", "OSError", "IndexError", "ValueError"}
SizesValid == \A i \in 1..Len(sample_sizes) : sample_sizes[i] >= 1
SavefigReached ==
    \E i \in 1..Len(plot_calls) : plot_calls[i].op = "savefig"

\* C7: invalid parameters (here a sample size of 0 in the batch
\* demonstrator) are rejected before any plotting: no histogram call is
\* reached unless every sample size is valid.
C7_NoPlotWithInvalidParams ==
    num_experiments >= 1 =>
        \A i \in 1..Len(plot_calls) :
            plot_calls[i].op \in {"hist", "plot"} =>
                SizesValid /\ plot_calls[i].arg >= 1

\* C9: for any list of (valid) sample sizes and any experiment count
\* E >= 1, a finished run has rendered exactly one subplot per sample size,
\* each from exactly E means, and has reached the step that saves the
\* figure, whatever the length of the list.
C9_OneSubplotPerSize ==
    (SizesValid /\ num_experiments >= 1 /\ CltTerminated) =>
        /\ SavefigReached
        /\ Len(subplots) = Len(sample_sizes)
        /\ \A i \in 1..Len(subplots) :
              /\ subplots[i].n = sample_sizes[i]
              /\ subplots[i].count = num_experiments

====
